---- MODULE Spec2Model ----
(***************************************************************************)
(* Model of src/client-pwa/icons/create_icons.py: the procedure            *)
(* create_icon(size, filename) and the module-level driver that calls it   *)
(* three times and prints a summary line.                                  *)
(*                                                                         *)
(* The imaging library is the environment.  Its answers are inputs:        *)
(*   - whether ImageFont.truetype loads the preferred font (per call),     *)
(*   - the bounding box draw.textbbox((0, 0), ...) returns,                *)
(*   - whether a library call raises.                                      *)
(* An image is its canvas size, its background colour and the rectangle of *)
(* the canvas the text is drawn on (the text's bounding box moved to the   *)
(* drawing position and clipped to the canvas), with the text's colour.    *)
(***************************************************************************)
EXTENDS Integers, Sequences, FiniteSets, TLC

VARIABLES
    fs,       \* the working directory: path -> file content
    out,      \* the console: the lines printed by this run, in order
    written,  \* the paths this run has saved to, in order
    raised,   \* the exceptions raised in this run, in order: [call, step]
    main,     \* the script: "running", "done" (fell off the end), "crashed"
    cur,      \* the module-level statement the sequential driver is at
    pc,       \* per create_icon call: the statement it is at
    locals,   \* per create_icon call: its local variables
    run,      \* how many times the script has been started
    prev      \* what the directory looked like when this run was started

vars == <<fs, out, written, raised, main, cur, pc, locals, run, prev>>

----------------------------------------------------------------------------
(* Bounds of the model *)

\* textbbox at the origin returns left and top in 0..MaxOffset
MaxOffset == 1
\* the extent of the text the measurement reports: it fits the two larger
\* canvases and is larger than the smallest one
TextW == 19
TextH == 17
\* how many times the script is started
MaxRuns == 2

----------------------------------------------------------------------------
(* Values *)

Max(a, b) == IF a >= b THEN a ELSE b
Min(a, b) == IF a <= b THEN a ELSE b

EmptyBox == <<0, 0, 0, 0>>

\* No file at a path, and a file that was there before the script ever ran.
NoFile == [width |-> 0, height |-> 0, bg |-> "", fill |-> "", ink |-> EmptyBox]
OldFile == [width |-> 1, height |-> 1, bg |-> "old", fill |-> "old", ink |-> EmptyBox]

\* Beside the script's own paths, one file of the directory it never names.
Bystander == "manifest.json"

\* The boxes (left, top, right, bottom) draw.textbbox((0, 0), ...) may return.
BBoxes ==
    {<<l, t, l + TextW, t + TextH>> : l \in 0..MaxOffset, t \in 0..MaxOffset}

----------------------------------------------------------------------------
(* The script's literals *)

\* The calls listed smallest first.
ScriptAscending ==
    << [size |-> 16,  filename |-> "icon-16x16.png"],
       [size |-> 32,  filename |-> "icon-32x32.png"],
       [size |-> 144, filename |-> "icon-144x144.png"] >>

\* lines 35-37: the three calls, in program order
Script ==
    << [size |-> 144, filename |-> "icon-144x144.png"],
       [size |-> 32,  filename |-> "icon-32x32.png"],
       [size |-> 16,  filename |-> "icon-16x16.png"] >>

Calls == 1..Len(Script)

Paths == {Script[i].filename : i \in Calls} \cup {Bystander}

BackgroundColour == "#667eea"
TextColour == "white"

\* the size ImageFont.load_default() gives its font when called with no size
DefaultFontSize == 10

\* A confirmation line that leaves the dimensions out.
ConfirmationLineBare(filename, size) == <<"Created", filename>>

\* line 32 and line 39
ConfirmationLine(filename, size) == <<"Created", filename, size, size>>
SummaryLine == <<"All icons created successfully!">>

----------------------------------------------------------------------------
(* create_icon's expressions *)

\* A canvas one row short.
NewImageShort(size) ==
    [width |-> size, height |-> size - 1, bg |-> "#667eea", fill |-> "", ink |-> <<0, 0, 0, 0>>]

\* line 8: Image.new('RGB', (size, size), color='#667eea')
NewImage(size) ==
    [width |-> size, height |-> size, bg |-> BackgroundColour, fill |-> "", ink |-> EmptyBox]

\* line 13
PreferredFontSize(size) == Max(size \div 3, 12)

\* line 14: the font truetype returns has the size it was asked for
TrueTypeFont(font_size) == [kind |-> "truetype", size |-> font_size]

\* line 16
FallbackFontSize(size) == Max(size \div 4, 10)

\* line 17: load_default() takes no argument, so the font has the library's size
LoadDefault == [kind |-> "default", size |-> DefaultFontSize]

\* lines 22-23
TextWidth(bbox) == bbox[3] - bbox[1]
TextHeight(bbox) == bbox[4] - bbox[2]

\* lines 25-26: Python's // is floor division, as is \div
CenterOffset(size, extent) == (size - extent) \div 2

\* The part of a box that is on a width x height canvas.
ClipBox(box, width, height) ==
    LET l == Max(box[1], 0)
        t == Max(box[2], 0)
        r == Min(box[3], width)
        b == Min(box[4], height)
    IN  IF l < r /\ t < b THEN <<l, t, r, b>> ELSE EmptyBox

\* line 28: draw.text((x, y), text, fill, font) puts the text's origin at
\* (x, y), so the text covers the measured box moved by (x, y).
DrawText(img, x, y, bbox, fill) ==
    [img EXCEPT !.fill = fill,
                !.ink = ClipBox(<<x + bbox[1], y + bbox[2], x + bbox[3], y + bbox[4]>>,
                                img.width, img.height)]

\* A save that leaves a file that is already there alone.
SaveFileKeep(dir, filename, img) ==
    IF dir[filename].width = 0 THEN [dir EXCEPT ![filename] = img] ELSE dir

\* line 31: img.save(filename, 'PNG') replaces whatever is at the path
SaveFile(dir, filename, img) == [dir EXCEPT ![filename] = img]

\* No handler at all, and a handler around the whole body.
HandlerNone(step) == "raised"
HandlerAll(step) == "except"

\* lines 12-15: the try block covers the truetype call alone, and its bare
\* except catches whatever that call raises; nothing else is caught.
Handler(step) == IF step = "truetype" THEN "except" ELSE "raised"

\* The statements of create_icon that call into the library and may raise.
Raising == {"new", "truetype", "except", "textbbox", "text", "save"}

\* A call's frame before any local is assigned, and after the call is over.
NoFont == [kind |-> "", size |-> 0]
NoFrame ==
    [size |-> 0, filename |-> "", img |-> NoFile, font_size |-> 0, font |-> NoFont,
     bbox |-> EmptyBox, text_width |-> 0, text_height |-> 0, x |-> 0, y |-> 0]

\* Every call given the first call's path.
FrameSharedPath(i) ==
    [NoFrame EXCEPT !.size = Script[i].size, !.filename = Script[1].filename]

\* lines 35-37: the arguments bound at the call
Frame(i) == [NoFrame EXCEPT !.size = Script[i].size, !.filename = Script[i].filename]

\* What the spec calls the visible result: per path, whether there is a
\* file, its dimensions and its colours.
Observe(dir) ==
    [p \in Paths |->
        [width |-> dir[p].width, height |-> dir[p].height,
         bg |-> dir[p].bg, fill |-> dir[p].fill]]

----------------------------------------------------------------------------
(* Initial states: any of the output paths may already hold a file. *)

Init ==
    /\ fs \in {d \in [Paths -> {NoFile, OldFile}] : d[Bystander] = OldFile}
    /\ out = <<>>
    /\ written = <<>>
    /\ raised = <<>>
    /\ main = "running"
    /\ cur = 1
    /\ pc = [i \in Calls |-> "pending"]
    /\ locals = [i \in Calls |-> NoFrame]
    /\ run = 1
    /\ prev = [complete |-> FALSE, view |-> Observe(fs)]

----------------------------------------------------------------------------
(* The statements of create_icon, for call i *)

\* lines 8-9
New(i) ==
    /\ pc[i] = "new"
    /\ locals' = [locals EXCEPT ![i].img = NewImage(locals[i].size)]
    /\ pc' = [pc EXCEPT ![i] = "truetype"]
    /\ UNCHANGED <<fs, out, written, raised, main, cur, run, prev>>

\* lines 13-14, the font loads
TrueType(i) ==
    /\ pc[i] = "truetype"
    /\ LET fsz == PreferredFontSize(locals[i].size)
       IN  locals' = [locals EXCEPT ![i].font_size = fsz, ![i].font = TrueTypeFont(fsz)]
    /\ pc' = [pc EXCEPT ![i] = "textbbox"]
    /\ UNCHANGED <<fs, out, written, raised, main, cur, run, prev>>

\* lines 16-17
Except(i) ==
    /\ pc[i] = "except"
    /\ locals' = [locals EXCEPT ![i].font_size = FallbackFontSize(locals[i].size),
                                ![i].font = LoadDefault]
    /\ pc' = [pc EXCEPT ![i] = "textbbox"]
    /\ UNCHANGED <<fs, out, written, raised, main, cur, run, prev>>

\* lines 20-26
Measure(i) ==
    /\ pc[i] = "textbbox"
    /\ \E bb \in BBoxes :
          locals' = [locals EXCEPT
                        ![i].bbox = bb,
                        ![i].text_width = TextWidth(bb),
                        ![i].text_height = TextHeight(bb),
                        ![i].x = CenterOffset(locals[i].size, TextWidth(bb)),
                        ![i].y = CenterOffset(locals[i].size, TextHeight(bb))]
    /\ pc' = [pc EXCEPT ![i] = "text"]
    /\ UNCHANGED <<fs, out, written, raised, main, cur, run, prev>>

\* line 28
Text(i) ==
    /\ pc[i] = "text"
    /\ locals' = [locals EXCEPT
                     ![i].img = DrawText(locals[i].img, locals[i].x, locals[i].y,
                                         locals[i].bbox, TextColour)]
    /\ pc' = [pc EXCEPT ![i] = "save"]
    /\ UNCHANGED <<fs, out, written, raised, main, cur, run, prev>>

\* line 31
Save(i) ==
    /\ pc[i] = "save"
    /\ fs' = SaveFile(fs, locals[i].filename, locals[i].img)
    /\ written' = Append(written, locals[i].filename)
    /\ pc' = [pc EXCEPT ![i] = "print"]
    /\ UNCHANGED <<out, raised, main, cur, locals, run, prev>>

\* line 32 and the return: the frame is gone
PrintReturn(i) ==
    /\ pc[i] = "print"
    /\ out' = Append(out, ConfirmationLine(locals[i].filename, locals[i].size))
    /\ pc' = [pc EXCEPT ![i] = "returned"]
    /\ locals' = [locals EXCEPT ![i] = NoFrame]
    /\ UNCHANGED <<fs, written, raised, run, prev>>

\* An exception that removes the files the run has saved so far.
RaiseCleanup(i) ==
    /\ pc[i] \in Raising
    /\ raised' = Append(raised, [call |-> i, step |-> pc[i]])
    /\ pc' = [pc EXCEPT ![i] = Handler(pc[i])]
    /\ locals' =
          IF Handler(pc[i]) = "raised"
          THEN [locals EXCEPT ![i] = NoFrame]
          ELSE IF pc[i] = "truetype"
               THEN [locals EXCEPT ![i].font_size = PreferredFontSize(locals[i].size)]
               ELSE locals
    /\ fs' = IF Handler(pc[i]) = "raised"
             THEN [p \in Paths |->
                      IF \E k \in 1..Len(written) : written[k] = p THEN NoFile ELSE fs[p]]
             ELSE fs
    /\ UNCHANGED <<out, written, run, prev>>

\* A library call raises.  At the truetype call the handler of lines 15-17 is
\* entered, line 13 having run; anywhere else the exception leaves
\* create_icon: the frame is gone, the directory is as it was.
Raise(i) ==
    /\ pc[i] \in Raising
    /\ raised' = Append(raised, [call |-> i, step |-> pc[i]])
    /\ pc' = [pc EXCEPT ![i] = Handler(pc[i])]
    /\ locals' =
          IF Handler(pc[i]) = "raised"
          THEN [locals EXCEPT ![i] = NoFrame]
          ELSE IF pc[i] = "truetype"
               THEN [locals EXCEPT ![i].font_size = PreferredFontSize(locals[i].size)]
               ELSE locals
    /\ UNCHANGED <<fs, out, written, run, prev>>

\* The statements of the body that touch neither the driver nor the console.
Body(i) ==
    \/ New(i)
    \/ TrueType(i)
    \/ Except(i)
    \/ Measure(i)
    \/ Text(i)
    \/ Save(i)

----------------------------------------------------------------------------
(* The module level, lines 35-39: the calls one after the other *)

Call(i) ==
    /\ main = "running"
    /\ cur = i
    /\ pc[i] = "pending"
    /\ pc' = [pc EXCEPT ![i] = "new"]
    /\ locals' = [locals EXCEPT ![i] = Frame(i)]
    /\ UNCHANGED <<fs, out, written, raised, main, cur, run, prev>>

Return(i) ==
    /\ PrintReturn(i)
    /\ cur' = cur + 1
    /\ UNCHANGED main

\* An exception that leaves create_icon ends the script: nothing at module
\* level catches it.
Fail(i) ==
    /\ Raise(i)
    /\ main' = IF pc'[i] = "raised" THEN "crashed" ELSE main
    /\ UNCHANGED cur

\* line 39
Summary ==
    /\ main = "running"
    /\ cur = Len(Script) + 1
    /\ out' = Append(out, SummaryLine)
    /\ main' = "done"
    /\ UNCHANGED <<fs, written, raised, cur, pc, locals, run, prev>>

\* The script is started again in the same directory, on a fresh console.
Rerun ==
    /\ main \in {"done", "crashed"}
    /\ run < MaxRuns
    /\ run' = run + 1
    /\ prev' = [complete |-> (main = "done"), view |-> Observe(fs)]
    /\ out' = <<>>
    /\ written' = <<>>
    /\ raised' = <<>>
    /\ main' = "running"
    /\ cur' = 1
    /\ pc' = [i \in Calls |-> "pending"]
    /\ locals' = [i \in Calls |-> NoFrame]
    /\ UNCHANGED fs

Next ==
    \/ \E i \in Calls : Call(i)
    \/ \E i \in Calls : Body(i)
    \/ \E i \in Calls : Return(i)
    \/ \E i \in Calls : Fail(i)
    \/ Summary
    \/ Rerun

Spec == Init /\ [][Next]_vars

----------------------------------------------------------------------------
(* The same three calls as processes that run side by side: each call may  *)
(* start at once and takes its steps in any interleaving with the others;  *)
(* an exception ends its own call; the summary line is printed once all    *)
(* three have returned.                                                    *)

CallPar(i) ==
    /\ main = "running"
    /\ pc[i] = "pending"
    /\ pc' = [pc EXCEPT ![i] = "new"]
    /\ locals' = [locals EXCEPT ![i] = Frame(i)]
    /\ UNCHANGED <<fs, out, written, raised, main, cur, run, prev>>

ReturnPar(i) ==
    /\ PrintReturn(i)
    /\ UNCHANGED <<main, cur>>

FailPar(i) ==
    /\ Raise(i)
    /\ UNCHANGED <<main, cur>>

SummaryPar ==
    /\ main = "running"
    /\ \A i \in Calls : pc[i] = "returned"
    /\ out' = Append(out, SummaryLine)
    /\ main' = "done"
    /\ UNCHANGED <<fs, written, raised, cur, pc, locals, run, prev>>

NextPar ==
    \/ \E i \in Calls : CallPar(i)
    \/ \E i \in Calls : Body(i)
    \/ \E i \in Calls : ReturnPar(i)
    \/ \E i \in Calls : FailPar(i)
    \/ SummaryPar

\* The processes start in a directory that holds none of the output files.
InitPar ==
    /\ Init
    /\ \A i \in Calls : fs[Script[i].filename] = NoFile

SpecPar == InitPar /\ [][NextPar]_vars

----------------------------------------------------------------------------
(* What the specification expects, written out *)

OutputFiles == <<"icon-144x144.png", "icon-32x32.png", "icon-16x16.png">>
OutputSizes == <<144, 32, 16>>

ExpectedConsole ==
    << <<"Created", "icon-144x144.png", 144, 144>>,
       <<"Created", "icon-32x32.png", 32, 32>>,
       <<"Created", "icon-16x16.png", 16, 16>>,
       <<"All icons created successfully!">> >>

ExpectedLook(k) ==
    [width |-> OutputSizes[k], height |-> OutputSizes[k], bg |-> "#667eea", fill |-> "white"]

Range(s) == {s[k] : k \in 1..Len(s)}
IsPrefix(s, t) == Len(s) <= Len(t) /\ \A k \in 1..Len(s) : s[k] = t[k]
FontFailed(i) == \E k \in 1..Len(raised) : raised[k] = [call |-> i, step |-> "truetype"]

----------------------------------------------------------------------------
(* C1: when the script has run to its end, it has saved to exactly the     *)
(* three paths icon-144x144.png, icon-32x32.png, icon-16x16.png, each      *)
(* holds an image whose width and height both equal the size passed to its *)
(* call, and the file the script does not name is as it was.               *)
C1_ThreeSquareFiles ==
    main = "done" =>
        /\ written = OutputFiles
        /\ \A k \in 1..3 :
              /\ fs[OutputFiles[k]].width = OutputSizes[k]
              /\ fs[OutputFiles[k]].height = OutputSizes[k]
        /\ fs[Bystander] = OldFile

C1_Witness ==
    /\ main = "done"
    /\ run = 1
    /\ raised = <<>>
    /\ fs["icon-16x16.png"].width = 16

(* C2: an exception raised by the truetype call never ends the call or the *)
(* script: the call is in its handler with its canvas intact and the       *)
(* script still running, a crash is never due to the truetype call, and a  *)
(* call whose font failed to load saves its file like any other; a run in  *)
(* which the font failed in any of the calls and which reached its end has *)
(* written all three files and printed the summary line last.              *)
C2_FontFailureCaught ==
    /\ \A i \in Calls :
          pc[i] = "except" =>
              /\ main = "running"
              /\ FontFailed(i)
              /\ locals[i].img.width = Script[i].size
              /\ locals[i].filename = Script[i].filename
    /\ \A k \in 1..Len(raised) :
          raised[k].step = "truetype" => pc[raised[k].call] # "raised" \/ k < Len(raised)
    /\ main = "crashed" => raised[Len(raised)].step # "truetype"
    /\ (main = "done" /\ \E i \in Calls : FontFailed(i)) =>
          /\ \A k \in 1..3 : fs[OutputFiles[k]].width = OutputSizes[k]
          /\ Len(out) = 4 /\ out[4] = SummaryLine

C2_Witness ==
    /\ main = "done"
    /\ \A i \in Calls : FontFailed(i)
    /\ \A k \in 1..3 : fs[OutputFiles[k]].width = OutputSizes[k]

(* C3: an exception raised anywhere but at the truetype call is the last   *)
(* thing the run does: the script has crashed at that call, no later call  *)
(* has started, and neither the failing call's confirmation line nor the   *)
(* summary line is on the console.                                         *)
C3_OtherFailuresPropagate ==
    \A k \in 1..Len(raised) :
        raised[k].step # "truetype" =>
            LET c == raised[k].call
            IN  /\ k = Len(raised)
                /\ main = "crashed"
                /\ pc[c] = "raised"
                /\ cur = c
                /\ \A j \in Calls : j > c => pc[j] = "pending"
                /\ ExpectedConsole[c] \notin Range(out)
                /\ SummaryLine \notin Range(out)

C3_Witness ==
    /\ main = "crashed"
    /\ raised # <<>>
    /\ raised[Len(raised)] = [call |-> 2, step |-> "save"]
    /\ out = <<ExpectedConsole[1]>>

(* C4: the console always holds a prefix of the four lines Created 144,    *)
(* Created 32, Created 16, summary; a confirmation line is on it only once *)
(* its file has been saved, the summary line only once all three have, and *)
(* a run that reached its end has printed exactly the four lines.          *)
C4_ConsoleOrder ==
    /\ IsPrefix(out, ExpectedConsole)
    /\ \A k \in 1..Len(out) :
          IF k <= 3
          THEN /\ Len(written) >= k
               /\ written[k] = OutputFiles[k]
               /\ fs[OutputFiles[k]].width = OutputSizes[k]
          ELSE written = OutputFiles
    /\ main = "done" => out = ExpectedConsole

C4_Witness ==
    /\ main = "done"
    /\ Len(out) = 4
    /\ out[1] = <<"Created", "icon-144x144.png", 144, 144>>
    /\ out[4] = SummaryLine

(* C5: a run that reaches its end leaves every output path with an image   *)
(* of its size in the two fixed colours whatever was at the path before,   *)
(* and leaves the other file alone; so a second complete run leaves the    *)
(* directory looking (names, sizes, colours) as the first one left it.     *)
C5_Idempotent ==
    /\ main = "done" =>
          /\ \A k \in 1..3 : Observe(fs)[OutputFiles[k]] = ExpectedLook(k)
          /\ fs[Bystander] = OldFile
    /\ (main = "done" /\ run >= 2 /\ prev.complete) => Observe(fs) = prev.view

C5_Witness ==
    /\ main = "done"
    /\ run = 2
    /\ prev.complete
    /\ written = OutputFiles
    /\ Observe(fs) = prev.view

(* C6, as claimed: however the three calls are interleaved, a run that     *)
(* prints the summary line shows what the sequential script shows: the     *)
(* same console, line for line, and the same directory.                    *)
C6_NoObservableDifference ==
    main = "done" =>
        /\ out = ExpectedConsole
        /\ \A k \in 1..3 : Observe(fs)[OutputFiles[k]] = ExpectedLook(k)

(* C6, amended: however the three calls are interleaved, no call touches   *)
(* another call's path or frame, and a run that prints the summary line    *)
(* leaves the directory the sequential script leaves and has printed the   *)
(* same three confirmation lines, each once, before the summary line; the  *)
(* order of the confirmation lines is the order the calls finished in.     *)
C6_SameFilesAnyOrder ==
    /\ \A k \in 1..3 :
          \/ fs[OutputFiles[k]] = NoFile
          \/ /\ Observe(fs)[OutputFiles[k]] = ExpectedLook(k)
             /\ pc[k] \in {"print", "returned"}
    /\ \A i \in Calls :
          pc[i] \notin {"pending", "returned", "raised"} =>
              /\ locals[i].size = OutputSizes[i]
              /\ locals[i].filename = OutputFiles[i]
    /\ fs[Bystander] = OldFile
    /\ main = "done" =>
          /\ \A k \in 1..3 : Observe(fs)[OutputFiles[k]] = ExpectedLook(k)
          /\ Len(out) = 4
          /\ {out[1], out[2], out[3]} = {ExpectedConsole[k] : k \in 1..3}
          /\ out[4] = SummaryLine

C6_Witness ==
    /\ main = "done"
    /\ out[1] = <<"Created", "icon-16x16.png", 16, 16>>
    /\ out[3] = <<"Created", "icon-144x144.png", 144, 144>>
    /\ written[1] = "icon-32x32.png"

(* C7, as claimed: the font the text is measured and drawn with is the     *)
(* preferred font at size max(size // 3, 12) when it loaded, and otherwise *)
(* the default font at size max(size // 4, 10), the value of font_size.    *)
C7_FontSizeUsed ==
    \A i \in Calls :
        pc[i] \in {"textbbox", "text"} =>
            /\ locals[i].font.kind \in {"truetype", "default"}
            /\ locals[i].font.kind = "truetype" =>
                  locals[i].font.size = Max(locals[i].size \div 3, 12)
            /\ locals[i].font.kind = "default" =>
                  /\ locals[i].font.size = Max(locals[i].size \div 4, 10)
                  /\ locals[i].font.size = locals[i].font_size

(* C8, as claimed: once the text is drawn, x and y are the floors of       *)
(* (size - text_width) / 2 and (size - text_height) / 2, the margins left  *)
(* and right, and above and below, of the box [x, x + text_width) by       *)
(* [y, y + text_height) differ by at most 1, and the pixels the text       *)
(* covers lie within that box.                                             *)
C8_TextCentred ==
    \A i \in Calls :
        pc[i] \in {"save", "print"} =>
            LET f == locals[i]
                ink == f.img.ink
            IN  /\ 2 * f.x <= f.size - f.text_width
                /\ f.size - f.text_width <= 2 * f.x + 1
                /\ 2 * f.y <= f.size - f.text_height
                /\ f.size - f.text_height <= 2 * f.y + 1
                /\ (f.size - (f.x + f.text_width)) - f.x \in {0, 1}
                /\ (f.size - (f.y + f.text_height)) - f.y \in {0, 1}
                /\ \/ ink = EmptyBox
                   \/ /\ f.x <= ink[1] /\ ink[3] <= f.x + f.text_width
                      /\ f.y <= ink[2] /\ ink[4] <= f.y + f.text_height

(* C10: the paths this run has saved to are, in order, a prefix of         *)
(* icon-144x144.png, icon-32x32.png, icon-16x16.png, whether or not the    *)
(* run has crashed; each of them holds the image saved to it; and the      *)
(* summary line is on the console only if all three have been saved.       *)
C10_WrittenIsPrefix ==
    /\ IsPrefix(written, OutputFiles)
    /\ \A k \in 1..Len(written) :
          /\ fs[OutputFiles[k]].width = OutputSizes[k]
          /\ fs[OutputFiles[k]].bg = "#667eea"
    /\ SummaryLine \in Range(out) => written = OutputFiles

C10_Witness ==
    /\ main = "crashed"
    /\ written = <<"icon-144x144.png", "icon-32x32.png">>
    /\ raised[Len(raised)] = [call |-> 3, step |-> "save"]
    /\ fs["icon-32x32.png"].width = 32

====
